---- MODULE Spec2Model ----
(***************************************************************************)
(* Model of src/src/App.js: the App component of camera-object-detection.  *)
(*                                                                         *)
(* The browser runs one thread.  A task (a promise settled by the browser, *)
(* a media event, an animation frame) runs to completion together with all *)
(* the promise reactions it triggers, so every action below is one task    *)
(* with the reactions that follow it in the same microtask checkpoint.     *)
(***************************************************************************)
EXTENDS Integers, Sequences, FiniteSets, TLC

\* Bounds of the model.
MaxRenders == 2      \* renders of App (each one runs the effect again)
MaxTicks == 3        \* invocations of detectionFunction, over all loops

\* Program constants.
lineWidth == 4       \* ctx.lineWidth = 4
heightText == 12     \* parseInt(ctx.font, 10) with ctx.font = '12px sans-serif'

Renders == 1..MaxRenders

\* Predictions the detector may return.  score is kept in units of 1/10000,
\* so 9700 is the score 0.97; bbox is <<x, y, width, height>>.  The second
\* box lies partly outside any surface (negative x, large width).
person == [class |-> "person", score |-> 9700, bbox |-> <<10, 20, 100, 200>>]
cat == [class |-> "cat", score |-> 8345, bbox |-> <<-5, 700, 3000, 50>>]
dog == [class |-> "dog", score |-> 8340, bbox |-> <<0, 0, 1, 1>>]
PredictionLists == {<<>>, <<person>>, <<dog>>, <<person, cat>>, <<cat, person>>}

VARIABLES
  hasGetUserMedia,   \* navigator.mediaDevices.getUserMedia is truthy
  appRenders,        \* number of times the App function body has run
  effectRan,         \* effectRan[r]: the effect of render r has run
  promiseModel,      \* promiseModel[r]: cocoSsd.load() promise of render r
  userMedia,         \* userMedia[r]: the getUserMedia() promise of effect r
  promiseCamera,     \* promiseCamera[r]: getUserMedia().then().catch()
  promiseAll,        \* promiseAll[r]: Promise.all([promiseModel, promiseCamera])
  srcObject,         \* refVideo.current.srcObject: 0 = null, r = stream of effect r
  onloadedmetadata,  \* refVideo.current.onloadedmetadata: 0 = null, r = resolve of effect r
  metadataPending,   \* a loadedmetadata event of the video is due
  alerts,            \* number of alert() calls
  consoleLog,        \* number of console.log() calls
  consoleError,      \* number of console.error() calls
  raf,               \* raf[m]: pending requestAnimationFrame callbacks closing over model m
  calls,             \* the model.detect() calls, in the order they were issued
  callOrder,         \* browser/detector APIs called by the last detectionFunction, in order
  surface,           \* shapes on the canvas, in drawing order
  draws,             \* number of drawBBox() calls
  lastApplied,       \* index in calls of the call whose result was drawn last (0 = none)
  lastResolved,      \* index in calls of the call that fulfilled last (0 = none)
  prevSurface        \* the surface just before the last drawBBox()

initVars == <<hasGetUserMedia, appRenders, effectRan, promiseModel, userMedia,
              promiseCamera, promiseAll, srcObject, onloadedmetadata,
              metadataPending, alerts, consoleLog, consoleError>>
loopVars == <<raf, calls, callOrder>>
drawVars == <<surface, draws, lastApplied, lastResolved, prevSurface>>
vars == <<initVars, loopVars, drawVars>>

----------------------------------------------------------------------------
\* drawBBox

\* (prediction.score * 100).toFixed(2): two decimals, trailing zeros kept.
\* On scores that are multiples of 1/10000 the product has at most two
\* decimals and the floating-point error of the multiplication is far below
\* half a unit of the second one, so the digits are those of score / 100.
toFixed_NoPadding(score) ==
  ToString(score \div 100) \o "." \o ToString(score % 100)

toFixed(score) ==
  ToString(score \div 100) \o "." \o ToString((score % 100) \div 10)
                           \o ToString(score % 10)

predictionText(prediction) ==
  prediction.class \o " " \o toFixed(prediction.score)

\* ctx.strokeRect(bbox[0], bbox[1], bbox[2], bbox[3]) with the red 4px stroke.
strokeRect_Offset(prediction) ==
  [op |-> "strokeRect", x |-> prediction.bbox[1] - lineWidth \div 2,
   y |-> prediction.bbox[2], w |-> prediction.bbox[3],
   h |-> prediction.bbox[4], text |-> "", style |-> "red"]

strokeRect(prediction) ==
  [op |-> "strokeRect", x |-> prediction.bbox[1], y |-> prediction.bbox[2],
   w |-> prediction.bbox[3], h |-> prediction.bbox[4],
   text |-> "", style |-> "red"]

\* ctx.fillRect(bbox[0] - lineWidth / 2, bbox[1], widthText + lineWidth,
\* -heightText): the width is that of `text` as measured by the browser
\* plus w.
fillRect(prediction) ==
  [op |-> "fillRect", x |-> prediction.bbox[1] - lineWidth \div 2,
   y |-> prediction.bbox[2], w |-> lineWidth, h |-> -heightText,
   text |-> predictionText(prediction), style |-> "#0F0"]

\* ctx.fillText(predictionText, bbox[0], bbox[1])
fillText(prediction) ==
  [op |-> "fillText", x |-> prediction.bbox[1], y |-> prediction.bbox[2],
   w |-> 0, h |-> 0, text |-> predictionText(prediction), style |-> "#00F"]

\* ctx.clearRect(0, 0, ctx.canvas.width, ctx.canvas.height)
clearRect_Keep(shapes) == shapes

clearRect(shapes) == <<>>

\* The body of predictions.forEach: the shapes drawn, in order.
RECURSIVE forEach(_)
forEach(predictions) ==
  IF predictions = <<>> THEN <<>>
  ELSE <<strokeRect(Head(predictions)), fillRect(Head(predictions)),
         fillText(Head(predictions))>> \o forEach(Tail(predictions))

\* drawBBox(predictions) on a surface holding `shapes`: the surface after it.
drawBBox(shapes, predictions) == clearRect(shapes) \o forEach(predictions)

----------------------------------------------------------------------------
\* detectionFunction and the detector

\* detectionFunction(video, model) with the pending animation-frame callbacks
\* `pending`: issues model.detect(video), then requests the next frame.
detectionFunction_NoReschedule(model, pending) ==
  /\ Len(calls) < MaxTicks
  /\ calls' = Append(calls, [model |-> model, video |-> "refVideo.current",
                             status |-> "pending", predictions |-> <<>>])
  /\ raf' = pending
  /\ callOrder' = <<"model.detect">>

detectionFunction_OneInFlight(model, pending) ==
  /\ Len(calls) < MaxTicks
  /\ \A c \in 1..Len(calls) : calls[c].status # "pending"
  /\ calls' = Append(calls, [model |-> model, video |-> "refVideo.current",
                             status |-> "pending", predictions |-> <<>>])
  /\ raf' = [pending EXCEPT ![model] = @ + 1]
  /\ callOrder' = <<"model.detect", "requestAnimationFrame">>

detectionFunction_ScheduleTwice(model, pending) ==
  /\ Len(calls) < MaxTicks
  /\ calls' = Append(calls, [model |-> model, video |-> "refVideo.current",
                             status |-> "pending", predictions |-> <<>>])
  /\ raf' = [pending EXCEPT ![model] = @ + 2]
  /\ callOrder' = <<"model.detect", "requestAnimationFrame">>

detectionFunction_ScheduleFirst(model, pending) ==
  /\ Len(calls) < MaxTicks
  /\ calls' = Append(calls, [model |-> model, video |-> "refVideo.current",
                             status |-> "pending", predictions |-> <<>>])
  /\ raf' = [pending EXCEPT ![model] = @ + 1]
  /\ callOrder' = <<"requestAnimationFrame", "model.detect">>

detectionFunction(model, pending) ==
  /\ Len(calls) < MaxTicks
  /\ calls' = Append(calls, [model |-> model, video |-> "refVideo.current",
                             status |-> "pending", predictions |-> <<>>])
  /\ raf' = [pending EXCEPT ![model] = @ + 1]
  /\ callOrder' = <<"model.detect", "requestAnimationFrame">>

\* The browser runs a callback given to requestAnimationFrame:
\* () => detectionFunction(video, model).
AnimationFrame(model) ==
  /\ raf[model] > 0
  /\ detectionFunction(model, [raf EXCEPT ![model] = @ - 1])
  /\ UNCHANGED <<initVars, drawVars>>

\* The .then handler of call c: predictions => { drawBBox(predictions) }.
thenDraw_Sequenced(c, predictions) ==
  IF c < lastApplied
  THEN UNCHANGED <<surface, draws, lastApplied, prevSurface>>
  ELSE /\ surface' = drawBBox(surface, predictions)
       /\ draws' = draws + 1
       /\ lastApplied' = c
       /\ prevSurface' = surface

thenDraw(c, predictions) ==
  /\ surface' = drawBBox(surface, predictions)
  /\ draws' = draws + 1
  /\ lastApplied' = c
  /\ prevSurface' = surface

\* The promise of call c fulfils with `predictions` and its .then handler
\* runs.
detectResolved(c, predictions) ==
  /\ calls[c].status = "pending"
  /\ calls' = [calls EXCEPT ![c].status = "fulfilled",
                            ![c].predictions = predictions]
  /\ lastResolved' = c
  /\ thenDraw(c, predictions)
  /\ UNCHANGED <<initVars, raf, callOrder>>

\* The promise of call c rejects; no handler is attached for that.
detectRejected_StopsLoop(c) ==
  /\ calls[c].status = "pending"
  /\ calls' = [calls EXCEPT ![c].status = "rejected"]
  /\ raf' = [m \in Renders |-> 0]
  /\ UNCHANGED <<initVars, callOrder, drawVars>>

detectRejected_Clears(c) ==
  /\ calls[c].status = "pending"
  /\ calls' = [calls EXCEPT ![c].status = "rejected"]
  /\ surface' = <<>>
  /\ prevSurface' = surface
  /\ UNCHANGED <<initVars, raf, callOrder, draws, lastApplied, lastResolved>>

detectRejected(c) ==
  /\ calls[c].status = "pending"
  /\ calls' = [calls EXCEPT ![c].status = "rejected"]
  /\ UNCHANGED <<initVars, raf, callOrder, drawVars>>

----------------------------------------------------------------------------
\* Initialization: the App body and its effect

\* The state of Promise.all([promiseModel, promiseCamera]) given the states
\* pm and pc of its inputs and its own state pa.
PromiseAll(pm, pc, pa) ==
  IF pa # "pending" THEN pa
  ELSE IF pm = "rejected" THEN "rejected"
  ELSE IF pm = "fulfilled" /\ pc \in {"loadedmetadata", "undefined"}
       THEN "fulfilled"
  ELSE "pending"

\* Promise.all(...).then(values => detectionFunction(refVideo.current,
\* values[0])).catch(error => console.error(error)) of effect r, after its
\* inputs have become pm and pc.
PromiseAllReactions_NoStart(r, pm, pc, pa) ==
  LET settled == PromiseAll(pm, pc, pa) IN
  /\ promiseAll' = [promiseAll EXCEPT ![r] = settled]
  /\ UNCHANGED loopVars
  /\ consoleError' = IF pa = "pending" /\ settled = "rejected"
                     THEN consoleError + 1 ELSE consoleError

PromiseAllReactions(r, pm, pc, pa) ==
  LET settled == PromiseAll(pm, pc, pa) IN
  /\ promiseAll' = [promiseAll EXCEPT ![r] = settled]
  /\ IF pa = "pending" /\ settled = "fulfilled"
     THEN detectionFunction(r, raf)
     ELSE UNCHANGED loopVars
  /\ consoleError' = IF pa = "pending" /\ settled = "rejected"
                     THEN consoleError + 1 ELSE consoleError

\* The body of the App function, run for render r: cocoSsd.load().
App(r) ==
  /\ appRenders' = r
  /\ promiseModel' = [promiseModel EXCEPT ![r] = "pending"]
  /\ UNCHANGED <<hasGetUserMedia, effectRan, userMedia, promiseCamera,
                 promiseAll, srcObject, onloadedmetadata, metadataPending,
                 alerts, consoleLog, consoleError, loopVars, drawVars>>

\* The first render of the view.
Mount ==
  /\ appRenders = 0
  /\ App(1)

\* A later render of the view, after the effect of the one before has run.
Rerender ==
  /\ appRenders >= 1
  /\ appRenders < MaxRenders
  /\ effectRan[appRenders]
  /\ App(appRenders + 1)

\* The effect callback of render r.
useEffect(r) ==
  /\ r = appRenders
  /\ ~effectRan[r]
  /\ effectRan' = [effectRan EXCEPT ![r] = TRUE]
  /\ IF hasGetUserMedia
     THEN /\ userMedia' = [userMedia EXCEPT ![r] = "pending"]
          /\ promiseCamera' = [promiseCamera EXCEPT ![r] = "pending"]
          /\ PromiseAllReactions(r, promiseModel[r], "pending", "pending")
     ELSE UNCHANGED <<userMedia, promiseCamera, promiseAll, consoleError,
                      loopVars>>
  /\ UNCHANGED <<hasGetUserMedia, appRenders, promiseModel, srcObject,
                 onloadedmetadata, metadataPending, alerts, consoleLog,
                 drawVars>>

\* cocoSsd.load() of render r fulfils with the model.
modelLoaded(r) ==
  /\ promiseModel[r] = "pending"
  /\ promiseModel' = [promiseModel EXCEPT ![r] = "fulfilled"]
  /\ IF promiseAll[r] = "pending"
     THEN PromiseAllReactions(r, "fulfilled", promiseCamera[r], "pending")
     ELSE UNCHANGED <<promiseAll, consoleError, loopVars>>
  /\ UNCHANGED <<hasGetUserMedia, appRenders, effectRan, userMedia,
                 promiseCamera, srcObject, onloadedmetadata, metadataPending,
                 alerts, consoleLog, drawVars>>

\* cocoSsd.load() of render r rejects.
modelFailed(r) ==
  /\ promiseModel[r] = "pending"
  /\ promiseModel' = [promiseModel EXCEPT ![r] = "rejected"]
  /\ IF promiseAll[r] = "pending"
     THEN PromiseAllReactions(r, "rejected", promiseCamera[r], "pending")
     ELSE UNCHANGED <<promiseAll, consoleError, loopVars>>
  /\ UNCHANGED <<hasGetUserMedia, appRenders, effectRan, userMedia,
                 promiseCamera, srcObject, onloadedmetadata, metadataPending,
                 alerts, consoleLog, drawVars>>

\* getUserMedia() of effect r fulfils with a stream; the .then handler sets
\* srcObject and onloadedmetadata and returns a promise that is still pending.
getUserMediaGranted(r) ==
  /\ userMedia[r] = "pending"
  /\ userMedia' = [userMedia EXCEPT ![r] = "fulfilled"]
  /\ srcObject' = r
  /\ onloadedmetadata' = r
  /\ metadataPending' = TRUE
  /\ UNCHANGED <<hasGetUserMedia, appRenders, effectRan, promiseModel,
                 promiseCamera, promiseAll, alerts, consoleLog, consoleError,
                 loopVars, drawVars>>

\* .catch(error => { console.log(error); alert(...) })
catchCamera_NoAlert ==
  /\ consoleLog' = consoleLog + 1
  /\ alerts' = alerts

catchCamera ==
  /\ consoleLog' = consoleLog + 1
  /\ alerts' = alerts + 1

\* getUserMedia() of effect r rejects; the .catch handler runs and returns
\* undefined, so promiseCamera fulfils with undefined.
getUserMediaDenied(r) ==
  /\ userMedia[r] = "pending"
  /\ userMedia' = [userMedia EXCEPT ![r] = "rejected"]
  /\ catchCamera
  /\ promiseCamera' = [promiseCamera EXCEPT ![r] = "undefined"]
  /\ PromiseAllReactions(r, promiseModel[r], "undefined", promiseAll[r])
  /\ UNCHANGED <<hasGetUserMedia, appRenders, effectRan, promiseModel,
                 srcObject, onloadedmetadata, metadataPending, drawVars>>

\* The video fires loadedmetadata; the handler in onloadedmetadata is the
\* resolve function of the promise the .then handler of an effect returned.
loadedmetadata ==
  /\ metadataPending
  /\ metadataPending' = FALSE
  /\ IF onloadedmetadata # 0 /\ promiseCamera[onloadedmetadata] = "pending"
     THEN /\ promiseCamera' =
               [promiseCamera EXCEPT ![onloadedmetadata] = "loadedmetadata"]
          /\ PromiseAllReactions(onloadedmetadata,
                                 promiseModel[onloadedmetadata],
                                 "loadedmetadata",
                                 promiseAll[onloadedmetadata])
     ELSE UNCHANGED <<promiseCamera, promiseAll, consoleError, loopVars>>
  /\ UNCHANGED <<hasGetUserMedia, appRenders, effectRan, promiseModel,
                 userMedia, srcObject, onloadedmetadata, alerts, consoleLog,
                 drawVars>>

----------------------------------------------------------------------------
\* Specifications

Init ==
  /\ hasGetUserMedia \in BOOLEAN
  /\ appRenders = 0
  /\ effectRan = [r \in Renders |-> FALSE]
  /\ promiseModel = [r \in Renders |-> "none"]
  /\ userMedia = [r \in Renders |-> "none"]
  /\ promiseCamera = [r \in Renders |-> "none"]
  /\ promiseAll = [r \in Renders |-> "none"]
  /\ srcObject = 0
  /\ onloadedmetadata = 0
  /\ metadataPending = FALSE
  /\ alerts = 0
  /\ consoleLog = 0
  /\ consoleError = 0
  /\ raf = [r \in Renders |-> 0]
  /\ calls = <<>>
  /\ callOrder = <<>>
  /\ surface = <<>>
  /\ draws = 0
  /\ lastApplied = 0
  /\ lastResolved = 0
  /\ prevSurface = <<>>

\* One session of the view as the repository mounts it: App renders once.
Next ==
  \/ Mount
  \/ \E r \in Renders : useEffect(r)
  \/ \E r \in Renders : modelLoaded(r)
  \/ \E r \in Renders : modelFailed(r)
  \/ \E r \in Renders : getUserMediaGranted(r)
  \/ \E r \in Renders : getUserMediaDenied(r)
  \/ loadedmetadata
  \/ \E m \in Renders : AnimationFrame(m)
  \/ \E c \in 1..Len(calls), p \in PredictionLists : detectResolved(c, p)
  \/ \E c \in 1..Len(calls) : detectRejected(c)

Spec == Init /\ [][Next]_vars

\* The browser keeps running animation-frame callbacks.
FairSpec == Spec /\ WF_vars(\E m \in Renders : AnimationFrame(m))

\* A session in which the parent renders App again.
NextRerender == Next \/ Rerender

SpecRerender == Init /\ [][NextRerender]_vars

----------------------------------------------------------------------------
\* Terms of the properties

\* The detection loop of effect r has been started: the .then handler of its
\* Promise.all has called detectionFunction.
Started(r) == promiseAll[r] = "fulfilled"

Running == \E r \in Renders : Started(r)

\* The camera of effect r is ready: permission granted and the
\* loadedmetadata event delivered to its resolve function.
CameraReady(r) ==
  userMedia[r] = "fulfilled" /\ promiseCamera[r] = "loadedmetadata"

ModelReady(r) == promiseModel[r] = "fulfilled"

RECURSIVE PendingFrames(_)
PendingFrames(S) ==
  IF S = {} THEN 0
  ELSE LET r == CHOOSE x \in S : TRUE IN raf[r] + PendingFrames(S \ {r})

\* The detect() calls of a given status.
CallsIn(status) == {c \in 1..Len(calls) : calls[c].status = status}

\* The number of detect() calls in flight.
InFlight == Cardinality(CallsIn("pending"))

\* The label texts on a surface, in drawing order.
Labels(shapes) == SelectSeq(shapes, LAMBDA s : s.op = "fillText")

\* The outline rectangles on a surface, in drawing order.
Outlines(shapes) == SelectSeq(shapes, LAMBDA s : s.op = "strokeRect")

----------------------------------------------------------------------------
\* Properties

\* C1: no detect() call is issued and nothing is drawn before both the model
\* load has resolved and the camera is ready (permission granted, metadata
\* loaded).  Stated as claimed; the code violates it when permission is
\* denied (see C2).
C1_NothingBeforeBothReady ==
  /\ \A c \in 1..Len(calls) :
       ModelReady(calls[c].model) /\ CameraReady(calls[c].model)
  /\ draws > 0 => \E r \in Renders : ModelReady(r) /\ CameraReady(r)

\* C2: once getUserMedia has been rejected, detectionFunction is never
\* called, no detect() call is issued and nothing is drawn.  Stated as
\* claimed; the code violates it.
C2_DeniedNeverRuns ==
  \A r \in Renders :
    userMedia[r] = "rejected" => ~Started(r) /\ calls = <<>> /\ draws = 0

\* C3: when the camera permission request is rejected the alert is raised
\* exactly once: it has been raised as soon as the rejection is handled and
\* no later state holds a second one.
C3_AlertExactlyOnce ==
  /\ alerts <= 1
  /\ \A r \in Renders : userMedia[r] = "rejected" => alerts = 1

\* C3 witness: the request was rejected, the session went on (the model
\* loaded, detect() calls were issued and settled) and the count is one.
C3_Witness ==
  /\ userMedia[1] = "rejected"
  /\ promiseModel[1] = "fulfilled"
  /\ Len(calls) >= 2
  /\ alerts = 1

\* C4: once the model load has rejected and the effect has run, the error
\* has been logged with console.error and the loop is not started.  Stated
\* as claimed; the code violates it when getUserMedia is absent (see C10).
C4_ModelFailureLogged ==
  \A r \in Renders :
    promiseModel[r] = "rejected" /\ effectRan[r] =>
      consoleError >= 1 /\ ~Started(r) /\ calls = <<>> /\ draws = 0

\* C5: with overlapping detect() calls, whatever the order in which they
\* complete, no error is logged and the surface shows exactly the
\* predictions of the call that resolved last.
C5_LastResolvedShown ==
  lastResolved # 0 =>
    /\ calls[lastResolved].status = "fulfilled"
    /\ lastApplied = lastResolved
    /\ surface = forEach(calls[lastResolved].predictions)
    /\ consoleError = 0

\* C5 witness: call 2 was issued while call 1 was pending and resolved
\* first; call 1 resolved last with other predictions and is what is shown.
C5_Witness ==
  /\ Len(calls) >= 2
  /\ lastResolved = 1
  /\ calls[2].status = "fulfilled"
  /\ calls[1].predictions # calls[2].predictions
  /\ calls[2].predictions # <<>>
  /\ surface = forEach(calls[1].predictions)

\* C6: whatever the outcomes of the detect() calls issued so far (resolved,
\* rejected or still pending), the tick that issued the last one has
\* scheduled the next tick, and that tick can fire and issue its own call.
C6_LoopSurvivesDetectOutcome ==
  calls # <<>> =>
    /\ PendingFrames(Renders) >= 1
    /\ Len(calls) < MaxTicks => ENABLED (\E m \in Renders : AnimationFrame(m))

\* C6 witness: the first call rejected, the second never settled, and a
\* third tick is scheduled.
C6_Witness ==
  /\ Len(calls) = 2
  /\ calls[1].status = "rejected"
  /\ calls[2].status = "pending"
  /\ PendingFrames(Renders) = 1

\* C7: once the loop is running no step stops it (it stays started with a
\* tick scheduled), and with animation frames scheduled fairly the ticks
\* keep firing, up to the bound of the model.
C7_NoStopState ==
  /\ [][Running => Running' /\ PendingFrames(Renders)' >= 1]_vars
  /\ Running ~> (Len(calls) = MaxTicks)

\* C7 witness: the loop is running, every tick of the model has fired and
\* the next one is still scheduled.
C7_Witness ==
  /\ Running
  /\ Len(calls) = MaxTicks
  /\ PendingFrames(Renders) = 1

\* C8: drawBBox([]) leaves no shape on the surface whatever it held before,
\* and doing it again gives the same empty surface.
C8_EmptyListClears ==
  /\ drawBBox(surface, <<>>) = <<>>
  /\ drawBBox(drawBBox(surface, <<>>), <<>>) = drawBBox(surface, <<>>)
  /\ (lastApplied # 0 /\ calls[lastApplied].predictions = <<>>) =>
       surface = <<>>

\* C8 witness: an empty list was drawn over a surface that held shapes.
C8_Witness ==
  /\ lastApplied # 0
  /\ calls[lastApplied].predictions = <<>>
  /\ prevSurface # <<>>
  /\ surface = <<>>

\* C9: the outlines on the surface are those of the predictions drawn last,
\* one per prediction, in list order, each with exactly the bbox geometry.
C9_OutlineIsBBox ==
  lastApplied # 0 =>
    LET predictions == calls[lastApplied].predictions
        outlines == Outlines(surface)
    IN /\ Len(outlines) = Len(predictions)
       /\ \A i \in 1..Len(predictions) :
            <<outlines[i].x, outlines[i].y, outlines[i].w, outlines[i].h>>
              = predictions[i].bbox

\* C9 witness: two predictions were drawn, the first one reaching outside
\* the surface, over a surface that held other shapes.
C9_Witness ==
  /\ lastApplied # 0
  /\ calls[lastApplied].predictions = <<cat, person>>
  /\ prevSurface # <<>>
  /\ Len(Outlines(surface)) = 2

C11_LabelText ==
  /\ toFixed(9700) = "97.00" /\ toFixed(8340) = "83.40"
  /\ toFixed(8345) = "83.45" /\ toFixed(5) = "0.05"
  /\ toFixed(0) = "0.00" /\ toFixed(10000) = "100.00"
  /\ lastApplied # 0 =>
       LET predictions == calls[lastApplied].predictions
           labels == Labels(surface)
           Expected(p) == CASE p = person -> "person 97.00"
                            [] p = cat -> "cat 83.45"
                            [] p = dog -> "dog 83.40"
       IN /\ Len(labels) = Len(predictions)
          /\ \A i \in 1..Len(predictions) :
               /\ labels[i].text = Expected(predictions[i])
               /\ labels[i].x = predictions[i].bbox[1]
               /\ labels[i].y = predictions[i].bbox[2]

\* C11 witness: a prediction whose score needs a trailing zero was drawn.
C11_Witness ==
  /\ lastApplied # 0
  /\ calls[lastApplied].predictions = <<dog>>
  /\ Len(Labels(surface)) = 1
  /\ Labels(surface)[1].text = "dog 83.40"


\* C12 as claimed: within a tick requestAnimationFrame is called before
\* model.detect.  The code calls them in the other order.
C12_ScheduleBeforeDetect ==
  callOrder # <<>> => callOrder = <<"requestAnimationFrame", "model.detect">>

\* C12 amended: every tick issues model.detect first and requests the next
\* frame right after it in the same step, so that at the end of the step the
\* call is still pending and the next tick is already scheduled.
C12_DetectThenSchedule ==
  [][Len(calls') > Len(calls) =>
       /\ callOrder' = <<"model.detect", "requestAnimationFrame">>
       /\ calls'[Len(calls')].status = "pending"
       /\ PendingFrames(Renders)' = 1]_vars

\* C12 witness: a tick fired from an animation frame and did both.
C12_Witness ==
  /\ Len(calls) = 2
  /\ calls[2].status = "pending"
  /\ callOrder = <<"model.detect", "requestAnimationFrame">>
  /\ PendingFrames(Renders) = 1


\* C13: nothing checks the order of completions: when a call resolves after
\* a later-issued call has been drawn, its older predictions are drawn over
\* the newer ones.
C13_StaleOverwrite ==
  [][\A c \in 1..Len(calls) :
       (calls[c].status = "pending" /\ calls'[c].status = "fulfilled"
          /\ lastApplied > c) =>
         /\ lastApplied' = c
         /\ surface' = forEach(calls'[c].predictions)]_vars

\* C13 witness: the call of tick 1 resolved after the call of tick 3 had
\* been drawn, and the surface shows the result of tick 1, not of tick 3.
C13_Witness ==
  /\ Len(calls) >= 3
  /\ calls[3].status = "fulfilled"
  /\ lastApplied = 1
  /\ surface = forEach(calls[1].predictions)
  /\ surface # forEach(calls[3].predictions)

\* C14: a tick never waits for an earlier call: with any number of calls in
\* flight the next tick can fire, and each tick adds one call in flight.
C14_NoConcurrencyLimit ==
  /\ [](calls # <<>> /\ InFlight = Len(calls) /\ Len(calls) < MaxTicks
          => ENABLED (\E m \in Renders : AnimationFrame(m)))
  /\ [][Len(calls') > Len(calls) => InFlight' = InFlight + 1]_vars

\* C14 witness: every call the model allows is in flight at the same time.
C14_Witness ==
  /\ Len(calls) = MaxTicks
  /\ InFlight = MaxTicks

\* C15: between events the surface holds the shapes of exactly one resolved
\* detect() result, the one drawn last, or nothing before the first render.
C15_OneResultOnSurface ==
  /\ draws = 0 => surface = <<>>
  /\ draws > 0 =>
       /\ calls[lastApplied].status = "fulfilled"
       /\ Len(surface) = 3 * Len(calls[lastApplied].predictions)
       /\ surface = forEach(calls[lastApplied].predictions)
  /\ \E p \in PredictionLists : surface = forEach(p)

\* C15 witness: two overlapping calls completed; the second render replaced
\* the two-prediction result of the first by a one-prediction result.
C15_Witness ==
  /\ draws >= 2
  /\ prevSurface = forEach(<<person, cat>>)
  /\ surface = forEach(<<dog>>)
  /\ lastApplied = 1
  /\ calls[2].status = "fulfilled"

\* C16: at most one detection loop is ever started, also when App renders
\* again and the effect runs again.  Stated as claimed; the code starts one
\* loop per run of the effect.
C16_AtMostOneLoop ==
  Cardinality({r \in Renders : Started(r)}) <= 1

\* C17: a started loop has exactly one animation-frame callback pending at
\* every moment, and a loop that is not started has none.
C17_OnePendingTick ==
  \A r \in Renders : raf[r] = IF Started(r) THEN 1 ELSE 0

\* C17 witness: the loop has fired ticks and drawn, and one callback is
\* pending.
C17_Witness ==
  /\ Started(1)
  /\ Len(calls) >= 2
  /\ draws >= 1
  /\ raf[1] = 1

\* C18: the surface changes only in a step in which a detect() call
\* fulfils, which is exactly one render; a call that rejects leaves it as it
\* is; so renders = fulfilled calls <= calls issued.
C18_OnlyResolvedCallsDraw ==
  /\ [](draws = Cardinality(CallsIn("fulfilled")) /\ draws <= Len(calls))
  /\ [][(surface' # surface \/ draws' # draws) =>
          /\ draws' = draws + 1
          /\ \E c \in 1..Len(calls) :
               calls[c].status = "pending" /\ calls'[c].status = "fulfilled"]_vars
  /\ [][(\E c \in 1..Len(calls) :
           calls[c].status = "pending" /\ calls'[c].status = "rejected") =>
          surface' = surface /\ draws' = draws]_vars

\* C18 witness: one call drew shapes, a later one rejected, another is
\* still unsettled, and the shapes are still there.
C18_Witness ==
  /\ Len(calls) >= 3
  /\ calls[1].status = "fulfilled"
  /\ calls[2].status = "rejected"
  /\ calls[3].status = "pending"
  /\ draws = 1
  /\ surface # <<>>

\* C19: once the model load has resolved and the camera is ready, in either
\* order, the loop is started and its first detect() call was issued with
\* the loaded model and the video handle.
C19_BothReadyStarts ==
  \A r \in Renders :
    ModelReady(r) /\ CameraReady(r) =>
      /\ Started(r)
      /\ \E c \in 1..Len(calls) :
           /\ calls[c].model = r
           /\ calls[c].video = "refVideo.current"
           /\ \A d \in 1..(c - 1) : calls[d].model # r

\* C19 witness: both became ready and the first call has just been issued.
C19_Witness ==
  /\ ModelReady(1) /\ CameraReady(1)
  /\ Started(1)
  /\ Len(calls) = 1
  /\ calls[1].status = "pending"
  /\ calls[1].model = 1

====
